---- MODULE Spec2Model ----
(***************************************************************************)
(* Model of sched.c of i3blocks: the scheduling of block updates (timeout, *)
(* signal or click).  The main loop of sched_start is one process; the     *)
(* signal handler runs asynchronously and may interleave with any step of  *)
(* the loop.  Every read of the volatile caughtsig is a separate step.     *)
(***************************************************************************)
EXTENDS Integers, Sequences, FiniteSets, TLC

VARIABLES
    blocks,     \* status->blocks: the config blocks (never written by sched.c)
    updated,    \* status->updated_blocks: the runtime blocks
    caughtsig,  \* static volatile sig_atomic_t caughtsig
    sleeptime,  \* const unsigned sleeptime of sched_start
    pc,         \* position of the main loop
    idx,        \* loop variable i of update_status_line (1-based)
    ret,        \* need_update: the value accumulated so far / returned
    now,        \* the clock read by time(NULL)
    slept,      \* time units elapsed in the current sleep()
    nsig,       \* history: number of signals delivered so far
    seen,       \* history: caughtsig values the decisions of this pass have read
    owed,       \* history: blocks whose signal was delivered and that were not dispatched since
    io,         \* history: "none", "delivered" (SIGIO not yet handled), "missed"
    dispatched, \* history: blocks ever handed to block_update
    lastDisp,   \* history: blocks dispatched in the latest pass and not clicked since
    lastClicked,\* history: those of lastDisp that had a click pending when dispatched
    stdin,      \* the notification waiting on standard input
    setup,      \* sched_init: its inputs, the steps it performed, its return value
    prior,      \* history: last_update of the block in block_update before its dispatch
    expired     \* sleep() has returned 0 to a handler's interruption; the pass is not yet entered

vars == <<blocks, updated, caughtsig, sleeptime, pc, idx, ret, now, slept,
          nsig, seen, owed, io, dispatched, lastDisp, lastClicked, stdin,
          setup, prior, expired>>

----------------------------------------------------------------------------
(* Program constants *)

SIGUSR1 == 10
SIGUSR2 == 12
SIGIO == 29
DefaultSleep == 5

\* sizeof(click->button), sizeof(click->x), sizeof(click->y) of struct click
ButtonCap == 2
XCap == 5
YCap == 5

(* Bounds of the model *)

MaxTime == 5        \* the clock runs from StartTime to MaxTime
MaxSignals == 2     \* signal deliveries in one behaviour
MaxInterval == 6    \* largest interval drawn for longest_sleep
MaxBlocks == 3      \* longest status line drawn for longest_sleep and handle_click
WordBits == 5       \* width of unsigned long in the model (the build has 64)
FnInterval == 3     \* largest interval drawn for need_update

StartTime == 1      \* time(NULL) when sched_start is entered (nonzero)

Signals == {SIGUSR1, SIGUSR2, SIGIO}
Word == 2 ^ WordBits

----------------------------------------------------------------------------
(* Data *)

EmptyClick == [button |-> <<>>, x |-> <<>>, y |-> <<>>]

\* a config block as the configuration loader leaves it: never run, no click;
\* the runtime blocks start as copies of the config blocks
Block(name, instance, command, interval, signal) ==
    [name |-> name, instance |-> instance, command |-> command,
     interval |-> interval, signal |-> signal,
     last_update |-> 0, click |-> EmptyClick]

MINOF(a, b) == IF a < b THEN a ELSE b

Take(s, n) == [k \in 1..MINOF(n, Len(s)) |-> s[k]]

----------------------------------------------------------------------------
(* longest_sleep *)

RECURSIVE gcd(_, _)
gcd(a, b) == IF b = 0 THEN a ELSE gcd(b, a % b)

RECURSIVE gcd_from(_, _, _)
gcd_from(status, time, i) ==
    IF i > Len(status) THEN time
    ELSE gcd_from(status, gcd(time, status[i].interval), i + 1)

longest_sleep_first_only(status) ==
    LET time == IF Len(status) > 0 THEN status[1].interval ELSE 0
    IN  IF time > 0 THEN time ELSE DefaultSleep

longest_sleep(status) ==
    LET time == IF Len(status) > 0
                THEN gcd_from(status, status[1].interval, 2)
                ELSE 0
    IN  IF time > 0 THEN time ELSE DefaultSleep

----------------------------------------------------------------------------
(* need_update *)

ToSigned_unsigned(u) == u

\* (long) of an unsigned long value
ToSigned(u) == IF u >= Word \div 2 THEN u - Word ELSE u

first_time_never(block) == FALSE

first_time(block) == block.last_update = 0

outdated_strict(block, t) ==
    /\ block.interval # 0
    /\ LET next_update == (block.last_update + block.interval) % Word
       IN  ToSigned((next_update - t) % Word) < 0

outdated(block, t) ==
    /\ block.interval # 0
    /\ LET next_update == (block.last_update + block.interval) % Word
       IN  ToSigned((next_update - t) % Word) <= 0

signaled(block, sig) == sig # 0 /\ sig = block.signal

clicked_only_sigio(block, sig) == sig = SIGIO /\ block.click.button # <<>>

clicked(block, sig) == sig # 0 /\ block.click.button # <<>>

need_update_no_first(block, sig, t) ==
    outdated(block, t) \/ signaled(block, sig) \/ clicked(block, sig)

need_update(block, sig, t) ==
    first_time(block) \/ outdated(block, t) \/ signaled(block, sig) \/ clicked(block, sig)

----------------------------------------------------------------------------
(* parse_click, handle_click *)

\* a notification is given by the spans json_parse finds in it
parse_click_whole_field(n) ==
    [name |-> n.name, instance |-> n.instance,
     click |-> [button |-> Take(n.button, ButtonCap),
                x |-> Take(n.x, XCap),
                y |-> Take(n.y, YCap)]]

parse_click(n) ==
    [name |-> n.name, instance |-> n.instance,
     click |-> [button |-> Take(n.button, ButtonCap - 1),
                x |-> Take(n.x, XCap - 1),
                y |-> Take(n.y, YCap - 1)]]

Matches(ub, p) ==
    {k \in 1..Len(ub) : ub[k].name = p.name /\ ub[k].instance = p.instance}

FirstOf(S) == CHOOSE k \in S : \A j \in S : k <= j

handle_click_all(ub, n) ==
    LET p == parse_click(n)
    IN  IF p.name # "" \/ p.instance # ""
        THEN [k \in 1..Len(ub) |->
                 IF k \in Matches(ub, p) THEN [ub[k] EXCEPT !.click = p.click] ELSE ub[k]]
        ELSE ub

handle_click(ub, n) ==
    LET p == parse_click(n)
        m == Matches(ub, p)
    IN  IF (p.name # "" \/ p.instance # "") /\ m # {}
        THEN [ub EXCEPT ![FirstOf(m)].click = p.click]
        ELSE ub

\* the block handle_click writes, 0 when it writes none
ClickTarget(ub, n) ==
    LET p == parse_click(n)
        m == Matches(ub, p)
    IN  IF (p.name # "" \/ p.instance # "") /\ m # {} THEN FirstOf(m) ELSE 0

----------------------------------------------------------------------------
(* block_update (block.c): runs the command; on success sets last_update *)

block_update(block, t, ok) ==
    IF ok THEN [block EXCEPT !.last_update = t] ELSE block

\* update_status_line, lines 120-122: restore the config values, keep the click
primed_keep_last_update(config_block, updated_block) ==
    [config_block EXCEPT !.click = updated_block.click,
                         !.last_update = updated_block.last_update]

primed(config_block, updated_block) ==
    [config_block EXCEPT !.click = updated_block.click]

\* update_status_line, lines 124-127: run the command, clear the click
finish_keep_click(updated_block, t, ok) ==
    block_update(updated_block, t, ok)

finish(updated_block, t, ok) ==
    [block_update(updated_block, t, ok) EXCEPT !.click = EmptyClick]

\* update_status_line, lines 131-132
reset_keeps_sigio(sig) == IF sig > 0 /\ sig # SIGIO THEN 0 ELSE sig

reset_caughtsig(sig) == IF sig > 0 THEN 0 ELSE sig

is_static_never(config_block) == FALSE

is_static(config_block) == config_block.command = ""

----------------------------------------------------------------------------
(* sched_use_signal, sched_event_stdin, sched_init.  The calls that fail  *)
(* when they are made are an input; the result is the return value and    *)
(* the calls made, in order.                                               *)

SetupSteps == {"SIGUSR1", "SIGUSR2", "SIGIO", "F_SETOWN", "F_SETFL"}

SigName(sig) ==
    CASE sig = SIGUSR1 -> "SIGUSR1"
      [] sig = SIGUSR2 -> "SIGUSR2"
      [] sig = SIGIO -> "SIGIO"

\* sigaction(sig, &sa, NULL) == -1 ? 1 : 0
sched_use_signal(sig, fail) == IF SigName(sig) \in fail THEN 1 ELSE 0

sched_event_stdin(fail) ==
    IF sched_use_signal(SIGIO, fail) # 0
    THEN [rc |-> 1, done |-> <<"SIGIO">>]
    ELSE IF "F_SETOWN" \in fail
    THEN [rc |-> 1, done |-> <<"SIGIO", "F_SETOWN">>]
    ELSE IF "F_SETFL" \in fail
    THEN [rc |-> 1, done |-> <<"SIGIO", "F_SETOWN", "F_SETFL">>]
    ELSE [rc |-> 0, done |-> <<"SIGIO", "F_SETOWN", "F_SETFL">>]

sched_init_no_isatty(tty, fail) ==
    IF sched_use_signal(SIGUSR1, fail) # 0
    THEN [rc |-> 1, done |-> <<"SIGUSR1">>]
    ELSE IF sched_use_signal(SIGUSR2, fail) # 0
    THEN [rc |-> 1, done |-> <<"SIGUSR1", "SIGUSR2">>]
    ELSE LET e == sched_event_stdin(fail)
         IN  [rc |-> IF e.rc # 0 THEN 1 ELSE 0,
              done |-> <<"SIGUSR1", "SIGUSR2">> \o e.done]

sched_init(tty, fail) ==
    IF sched_use_signal(SIGUSR1, fail) # 0
    THEN [rc |-> 1, done |-> <<"SIGUSR1">>]
    ELSE IF sched_use_signal(SIGUSR2, fail) # 0
    THEN [rc |-> 1, done |-> <<"SIGUSR1", "SIGUSR2">>]
    ELSE IF ~tty
    THEN LET e == sched_event_stdin(fail)
         IN  [rc |-> IF e.rc # 0 THEN 1 ELSE 0,
              done |-> <<"SIGUSR1", "SIGUSR2">> \o e.done]
    ELSE [rc |-> 0, done |-> <<"SIGUSR1", "SIGUSR2">>]

\* the setup the scheduler loop runs after: stdin is no terminal, no call failed
SetupDone ==
    [tty |-> FALSE, fail |-> {}, at |-> "return",
     rc |-> sched_init(FALSE, {}).rc, done |-> sched_init(FALSE, {}).done]

----------------------------------------------------------------------------
(* Inputs *)

ConfigA == << Block("vol", "", "cmd", 2, SIGUSR1),
              Block("cpu", "m", "", 2, SIGUSR1),
              Block("cpu", "m", "cmd", 0, SIGUSR1) >>

ConfigB == << Block("", "", "cmd", 0, SIGUSR2),
              Block("net", "", "cmd", 3, SIGUSR1) >>

Configs == {ConfigA, ConfigB}

Notification(name, instance, button, x, y) ==
    [name |-> name, instance |-> instance, button |-> button, x |-> x, y |-> y]

NoNote == Notification("", "", <<>>, <<>>, <<>>)

\* the notifications the scheduler's runs receive
Notifications ==
    { Notification("vol", "", <<"1">>, <<"1", "0">>, <<"2", "0">>),
      Notification("cpu", "m", <<"3">>, <<"7">>, <<"2", "0">>),
      Notification("", "", <<"1">>, <<"1", "0">>, <<"2", "0">>) }

----------------------------------------------------------------------------
(* The scheduler *)

num == Len(blocks)

Init ==
    /\ blocks \in Configs
    /\ updated = blocks
    /\ caughtsig = 0
    /\ sleeptime = 0
    /\ pc = "start"
    /\ idx = 1
    /\ ret = FALSE
    /\ now = StartTime
    /\ slept = 0
    /\ nsig = 0
    /\ seen = {}
    /\ owed = {}
    /\ io = "none"
    /\ dispatched = {}
    /\ lastDisp = {}
    /\ lastClicked = {}
    /\ stdin = NoNote
    /\ setup = SetupDone
    /\ prior = 0
    /\ expired = FALSE

\* entering update_status_line: a new cycle begins
EnterPass ==
    /\ pc' = "pass"
    /\ idx' = 1
    /\ seen' = {}
    /\ io' = IF io = "delivered" THEN "missed" ELSE io

\* the blocks dispatched by the pass that is running (none before its first step)
ThisPass == IF idx = 1 THEN {} ELSE lastDisp
ThisPassClicked == IF idx = 1 THEN {} ELSE lastClicked

\* sched_start, line 276
Start ==
    /\ pc = "start"
    /\ sleeptime' = longest_sleep(blocks)
    /\ EnterPass
    /\ UNCHANGED <<expired, prior, setup, blocks, updated, caughtsig, ret, now, slept, nsig, owed,
                   dispatched, lastDisp, lastClicked, stdin>>

\* update_status_line, lines 110-113: a static block is skipped
PassSkip ==
    /\ pc = "pass"
    /\ idx <= num
    /\ is_static(blocks[idx])
    /\ idx' = idx + 1
    /\ lastDisp' = ThisPass
    /\ lastClicked' = ThisPassClicked
    /\ UNCHANGED <<expired, prior, setup, blocks, updated, caughtsig, sleeptime, pc, ret, now, slept,
                   nsig, seen, owed, io, dispatched, stdin>>

\* need_update, lines 76-86, up to the first read of caughtsig
PassCheck ==
    /\ pc = "pass"
    /\ idx <= num
    /\ ~is_static(blocks[idx])
    /\ seen' = seen \cup {caughtsig}
    /\ lastDisp' = ThisPass
    /\ lastClicked' = ThisPassClicked
    /\ IF caughtsig = 0
       THEN /\ ret' = need_update(updated[idx], 0, now)
            /\ pc' = IF ret' THEN "dispatch" ELSE "pass"
            /\ idx' = IF ret' THEN idx ELSE idx + 1
       ELSE /\ ret' = (first_time(updated[idx]) \/ outdated(updated[idx], now))
            /\ pc' = "sig"
            /\ idx' = idx
    /\ UNCHANGED <<expired, prior, setup, blocks, updated, caughtsig, sleeptime, now, slept, nsig,
                   owed, io, dispatched, stdin>>

\* need_update, lines 87-97: the second read of caughtsig, and the click
PassSig ==
    /\ pc = "sig"
    /\ seen' = seen \cup {caughtsig}
    /\ ret' = (ret \/ signaled(updated[idx], caughtsig) \/ clicked(updated[idx], caughtsig))
    /\ pc' = IF ret' THEN "dispatch" ELSE "pass"
    /\ idx' = IF ret' THEN idx ELSE idx + 1
    /\ UNCHANGED <<expired, prior, setup, blocks, updated, caughtsig, sleeptime, now, slept, nsig,
                   owed, io, dispatched, lastDisp, lastClicked, stdin>>

\* update_status_line, lines 116-124: the block is reset to its config values
\* and handed to block_update
Dispatch ==
    /\ pc = "dispatch"
    /\ updated' = [updated EXCEPT ![idx] = primed(blocks[idx], updated[idx])]
    /\ dispatched' = dispatched \cup {idx}
    /\ lastDisp' = lastDisp \cup {idx}
    /\ lastClicked' = IF updated[idx].click.button # <<>>
                      THEN lastClicked \cup {idx} ELSE lastClicked
    /\ owed' = owed \ {idx}
    /\ pc' = "update"
    /\ prior' = updated[idx].last_update
    /\ UNCHANGED <<expired, setup, blocks, caughtsig, sleeptime, idx, ret, now, slept, nsig,
                   seen, io, stdin>>

\* update_status_line, lines 124-128: block_update returns, having run the
\* command with or without success, and the click is cleared
ReturnWith(ok) ==
    /\ pc = "update"
    /\ updated' = [updated EXCEPT ![idx] = finish(updated[idx], now, ok)]
    /\ pc' = "pass"
    /\ idx' = idx + 1
    /\ prior' = 0
    /\ UNCHANGED <<expired, setup, blocks, caughtsig, sleeptime, ret, now, slept, nsig, seen,
                   owed, io, dispatched, lastDisp, lastClicked, stdin>>

Return == \E ok \in BOOLEAN : ReturnWith(ok)

\* update_status_line, lines 131-132
EndPass ==
    /\ pc = "pass"
    /\ idx = num + 1
    /\ caughtsig' = reset_caughtsig(caughtsig)
    /\ lastDisp' = ThisPass
    /\ lastClicked' = ThisPassClicked
    /\ pc' = "render"
    /\ UNCHANGED <<expired, prior, setup, blocks, updated, sleeptime, idx, ret, now, slept, nsig,
                   seen, owed, io, dispatched, stdin>>

\* json_print_status_line, then sleep() is entered
Render ==
    /\ pc = "render"
    /\ pc' = "sleep"
    /\ slept' = 0
    /\ UNCHANGED <<expired, prior, setup, blocks, updated, caughtsig, sleeptime, idx, ret, now, nsig,
                   seen, owed, io, dispatched, lastDisp, lastClicked, stdin>>

\* sleep() returns 0: the whole time has elapsed, or a handler has interrupted
\* it with less than a second left
SleepTimeout ==
    /\ pc = "sleep"
    /\ slept = sleeptime \/ expired
    /\ EnterPass
    /\ expired' = FALSE
    /\ UNCHANGED <<prior, setup, blocks, updated, caughtsig, sleeptime, ret, now, slept,
                   nsig, owed, dispatched, lastDisp, lastClicked, stdin>>

\* sleep() returned nonzero and line 287 reads SIGIO: handle_click
WokenClick ==
    /\ pc = "woken"
    /\ caughtsig = SIGIO
    /\ updated' = handle_click(updated, stdin)
    /\ lastDisp' = lastDisp \ {ClickTarget(updated, stdin)}
    /\ lastClicked' = lastClicked \ {ClickTarget(updated, stdin)}
    /\ stdin' = NoNote
    /\ pc' = "pass"
    /\ idx' = 1
    /\ seen' = {}
    /\ io' = "none"
    /\ UNCHANGED <<expired, prior, setup, blocks, caughtsig, sleeptime, ret, now, slept, nsig, owed,
                   dispatched>>

\* sleep() returned nonzero and line 287 reads another signal
WokenOther ==
    /\ pc = "woken"
    /\ caughtsig # SIGIO
    /\ EnterPass
    /\ UNCHANGED <<expired, prior, setup, blocks, updated, caughtsig, sleeptime, ret, now, slept,
                   nsig, owed, dispatched, lastDisp, lastClicked, stdin>>

\* sleep(total), line 285, interrupted when the clock has advanced by done
\* since it was entered: it returns the unslept time in whole seconds, rounded
\* down.  The clock counts whole seconds, so the fraction of a second slept is
\* not known: with done = total - 1 the time left may be more or less than a
\* second, with done < total - 1 it is more, with total = 1 it is less.
sleep_may_return_nonzero(total, done) == done < total /\ total >= 2
sleep_may_return_zero(total, done) == done >= total - 1

\* a handler has run: a sleep() that has time left returns, nonzero (line 286
\* is reached) or 0 (the loop goes on to the next pass)
Interrupt ==
    IF pc = "sleep" /\ ~expired /\ slept < sleeptime
    THEN \/ /\ sleep_may_return_nonzero(sleeptime, slept)
            /\ pc' = "woken"
            /\ expired' = FALSE
         \/ /\ sleep_may_return_zero(sleeptime, slept)
            /\ pc' = "sleep"
            /\ expired' = TRUE
    ELSE pc' = pc /\ expired' = expired

\* handler(signum), at any point of the loop
Signal ==
    /\ nsig < MaxSignals
    /\ pc # "start"
    /\ \E s \in Signals :
          /\ caughtsig' = s
          /\ owed' = owed \cup {k \in 1..num : ~is_static(blocks[k]) /\ blocks[k].signal = s}
          /\ io' = IF s = SIGIO /\ io = "none" THEN "delivered" ELSE io
          /\ IF s = SIGIO THEN stdin' \in Notifications ELSE stdin' = stdin
    /\ nsig' = nsig + 1
    /\ Interrupt
    /\ UNCHANGED <<prior, setup, blocks, updated, sleeptime, idx, ret, now, slept, seen,
                   dispatched, lastDisp, lastClicked>>

\* one time unit passes; a sleep() that has returned does not go on
Tick ==
    /\ now < MaxTime
    /\ pc # "start"
    /\ pc = "sleep" => (slept < sleeptime /\ ~expired)
    /\ now' = now + 1
    /\ slept' = IF pc = "sleep" THEN slept + 1 ELSE slept
    /\ UNCHANGED <<expired, prior, setup, blocks, updated, caughtsig, sleeptime, pc, idx, ret, nsig,
                   seen, owed, io, dispatched, lastDisp, lastClicked, stdin>>

Next ==
    \/ Start
    \/ PassSkip
    \/ PassCheck
    \/ PassSig
    \/ Dispatch
    \/ Return
    \/ EndPass
    \/ Render
    \/ SleepTimeout
    \/ WokenClick
    \/ WokenOther
    \/ Signal
    \/ Tick

Spec == Init /\ [][Next]_vars

----------------------------------------------------------------------------
(* longest_sleep over every sequence of up to MaxBlocks intervals up to    *)
(* MaxInterval, followed by the loop of sched_start in runs that receive   *)
(* no signal.  The first block runs a command, the others are static.      *)

StatusLines(n) ==
    { [k \in 1..n |-> Block("b", "", IF k = 1 THEN "cmd" ELSE "", ivs[k], 0)] :
        ivs \in [1..n -> 0..MaxInterval] }

InitSleep ==
    /\ blocks \in UNION {StatusLines(n) : n \in 0..MaxBlocks}
    /\ updated = blocks
    /\ caughtsig = 0
    /\ sleeptime = 0
    /\ pc = "start"
    /\ idx = 1
    /\ ret = FALSE
    /\ now = StartTime
    /\ slept = 0
    /\ nsig = 0
    /\ seen = {}
    /\ owed = {}
    /\ io = "none"
    /\ dispatched = {}
    /\ lastDisp = {}
    /\ lastClicked = {}
    /\ stdin = NoNote
    /\ setup = SetupDone
    /\ prior = 0
    /\ expired = FALSE

NextSleep ==
    \/ Start
    \/ PassSkip
    \/ PassCheck
    \/ Dispatch
    \/ Return
    \/ Return
    \/ EndPass
    \/ Render
    \/ SleepTimeout
    \/ Tick

SpecSleep == InitSleep /\ [][NextSleep]_vars

----------------------------------------------------------------------------
(* need_update applied to every block, wake-reason and clock value of the  *)
(* bounded sets, a block that holds a click while the wake-reason is none  *)
(* included: need_update has no precondition, although the loop of         *)
(* sched_start never calls it so.                                          *)

AClick == [button |-> <<"1">>, x |-> <<"1", "0">>, y |-> <<"2", "0">>]

InitDecision ==
    /\ \E iv \in 0..FnInterval, sg \in {SIGUSR1, SIGUSR2} :
          blocks = << Block("b", "", "cmd", iv, sg) >>
    /\ \E lu \in 0..(Word - 1), ck \in {EmptyClick, AClick} :
          updated = << [blocks[1] EXCEPT !.last_update = lu, !.click = ck] >>
    /\ caughtsig \in {0} \cup Signals
    /\ now \in 0..(Word - 1)
    /\ sleeptime = longest_sleep(blocks)
    /\ pc = "call"
    /\ idx = 1
    /\ ret = FALSE
    /\ slept = 0
    /\ nsig = 0
    /\ seen = {}
    /\ owed = {}
    /\ io = "none"
    /\ dispatched = {}
    /\ lastDisp = {}
    /\ lastClicked = {}
    /\ stdin = NoNote
    /\ setup = SetupDone
    /\ prior = 0
    /\ expired = FALSE

\* need_update, lines 69-98, with no signal delivered during the call
NeedUpdateCall ==
    /\ pc = "call"
    /\ ret' = need_update(updated[idx], caughtsig, now)
    /\ pc' = "return"
    /\ UNCHANGED <<expired, prior, setup, blocks, updated, caughtsig, sleeptime, idx, now, slept, nsig,
                   seen, owed, io, dispatched, lastDisp, lastClicked, stdin>>

NextDecision == NeedUpdateCall

SpecDecision == InitDecision /\ [][NextDecision]_vars

----------------------------------------------------------------------------
(* handle_click applied to every notification and status line of the       *)
(* bounded sets.  A click payload left from an earlier notification is     *)
(* found on static blocks only: update_status_line clears the others.      *)

ClickNames == {"", "vol"}
ClickInstances == {"", "m"}

ClickBlocks ==
    {Block(nm, inst, cmd, 0, SIGUSR1) :
        nm \in ClickNames, inst \in ClickInstances, cmd \in {"", "cmd"}}

ClickNotifications ==
    {Notification(nm, inst, b, <<"1", "0">>, <<"2", "0">>) :
        nm \in ClickNames \cup {"cpu"}, inst \in ClickInstances,
        b \in {<<>>, <<"3">>, <<"3", "4">>}}

InitClick ==
    /\ blocks \in UNION {[1..n -> ClickBlocks] : n \in 0..MaxBlocks}
    /\ \E old \in SUBSET {k \in 1..Len(blocks) : is_static(blocks[k])} :
          updated = [k \in 1..Len(blocks) |->
                        IF k \in old THEN [blocks[k] EXCEPT !.click = AClick]
                        ELSE blocks[k]]
    /\ stdin \in ClickNotifications
    /\ caughtsig = SIGIO
    /\ sleeptime = longest_sleep(blocks)
    /\ pc = "woken"
    /\ idx = 1
    /\ ret = FALSE
    /\ now = StartTime
    /\ slept = 0
    /\ nsig = 0
    /\ seen = {}
    /\ owed = {}
    /\ io = "delivered"
    /\ dispatched = {}
    /\ lastDisp = {}
    /\ lastClicked = {}
    /\ setup = SetupDone
    /\ prior = 0
    /\ expired = FALSE

NextClick == WokenClick

SpecClick == InitClick /\ [][NextClick]_vars

----------------------------------------------------------------------------
(* handle_click applied to notifications whose button, x and y spans have  *)
(* every length from 0 to SpanOver above the capacity of their field.      *)

SpanOver == 3       \* longest span drawn, counted from the capacity of its field

Chars == <<"0", "1", "2", "3", "4", "5", "6", "7", "8", "9">>

\* a span of n bytes, the i-th being the digit i mod 10
Span(n) == [i \in 1..n |-> Chars[(i % 10) + 1]]

ParseLine == <<Block("vol", "", "cmd", 0, SIGUSR1), Block("cpu", "m", "", 0, SIGUSR1)>>

ParseNotifications ==
    {Notification(ParseLine[k].name, ParseLine[k].instance, Span(b), Span(x), Span(y)) :
        k \in 1..2,
        b \in 0..(ButtonCap + SpanOver),
        x \in 0..(XCap + SpanOver),
        y \in 0..(YCap + SpanOver)}

InitParse ==
    /\ blocks = ParseLine
    /\ updated = blocks
    /\ stdin \in ParseNotifications
    /\ caughtsig = SIGIO
    /\ sleeptime = longest_sleep(blocks)
    /\ pc = "woken"
    /\ idx = 1
    /\ ret = FALSE
    /\ now = StartTime
    /\ slept = 0
    /\ nsig = 0
    /\ seen = {}
    /\ owed = {}
    /\ io = "delivered"
    /\ dispatched = {}
    /\ lastDisp = {}
    /\ lastClicked = {}
    /\ setup = SetupDone
    /\ prior = 0
    /\ expired = FALSE

NextParse == WokenClick

SpecParse == InitParse /\ [][NextParse]_vars

----------------------------------------------------------------------------
(* The loop of sched_start on a clock that advances only inside sleep():   *)
(* the pass and the rendering take no time and every command succeeds.     *)
(* Every status line of three blocks that all run a command, with          *)
(* intervals up to MaxInterval, until the clock reads Horizon.  The        *)
(* signals delivered are SIGUSR1 (every block's signal) and SIGUSR2 (no    *)
(* block's signal), during sleep().                                        *)

Horizon == 7        \* the clock of these runs goes from StartTime to Horizon

ScheduleIntervals == 0..MaxInterval

ScheduleLines ==
    { [k \in 1..3 |-> Block("b", "", "cmd", ivs[k], SIGUSR1)] :
        ivs \in [1..3 -> ScheduleIntervals] }

InitSchedule ==
    /\ blocks \in ScheduleLines
    /\ updated = blocks
    /\ caughtsig = 0
    /\ sleeptime = 0
    /\ pc = "start"
    /\ idx = 1
    /\ ret = FALSE
    /\ now = StartTime
    /\ slept = 0
    /\ nsig = 0
    /\ seen = {}
    /\ owed = {}
    /\ io = "none"
    /\ dispatched = {}
    /\ lastDisp = {}
    /\ lastClicked = {}
    /\ stdin = NoNote
    /\ setup = SetupDone
    /\ prior = 0
    /\ expired = FALSE

\* block_update returns after a successful execution
ReturnOk == ReturnWith(TRUE)

\* one time unit of sleep() passes
Elapse ==
    /\ pc = "sleep"
    /\ slept < sleeptime
    /\ ~expired
    /\ now < Horizon
    /\ now' = now + 1
    /\ slept' = slept + 1
    /\ UNCHANGED <<expired, prior, setup, blocks, updated, caughtsig, sleeptime, pc, idx, ret, nsig,
                   seen, owed, io, dispatched, lastDisp, lastClicked, stdin>>

\* handler(SIGUSR1) or handler(SIGUSR2) during sleep()
Wake ==
    /\ pc = "sleep"
    /\ nsig < MaxSignals
    /\ \E s \in {SIGUSR1, SIGUSR2} :
          /\ caughtsig' = s
          /\ owed' = owed \cup {k \in 1..num : ~is_static(blocks[k]) /\ blocks[k].signal = s}
    /\ nsig' = nsig + 1
    /\ Interrupt
    /\ UNCHANGED <<prior, setup, blocks, updated, sleeptime, idx, ret, now, slept, seen,
                   io, dispatched, lastDisp, lastClicked, stdin>>

NextSchedule ==
    \/ Start
    \/ PassCheck
    \/ PassSig
    \/ Dispatch
    \/ ReturnOk
    \/ EndPass
    \/ Render
    \/ SleepTimeout
    \/ WokenOther
    \/ Elapse
    \/ Wake

SpecSchedule == InitSchedule /\ [][NextSchedule]_vars

----------------------------------------------------------------------------
(* sched_init for a terminal or another stdin and every set of failing     *)
(* calls.                                                                  *)

InitSetup ==
    /\ \E t \in BOOLEAN, f \in SUBSET SetupSteps :
          setup = [tty |-> t, fail |-> f, at |-> "call", rc |-> 0, done |-> <<>>]
    /\ blocks \in Configs
    /\ updated = blocks
    /\ caughtsig = 0
    /\ sleeptime = 0
    /\ pc = "start"
    /\ idx = 1
    /\ ret = FALSE
    /\ now = StartTime
    /\ slept = 0
    /\ nsig = 0
    /\ seen = {}
    /\ owed = {}
    /\ io = "none"
    /\ dispatched = {}
    /\ lastDisp = {}
    /\ lastClicked = {}
    /\ stdin = NoNote
    /\ prior = 0
    /\ expired = FALSE

\* sched_init, lines 248-271
SchedInit ==
    /\ setup.at = "call"
    /\ LET r == sched_init(setup.tty, setup.fail)
       IN  setup' = [setup EXCEPT !.at = "return", !.rc = r.rc, !.done = r.done]
    /\ UNCHANGED <<expired, prior, blocks, updated, caughtsig, sleeptime, pc, idx, ret, now,
                   slept, nsig, seen, owed, io, dispatched, lastDisp,
                   lastClicked, stdin>>

NextSetup == SchedInit

SpecSetup == InitSetup /\ [][NextSetup]_vars

----------------------------------------------------------------------------
(* Claims *)

NonzeroIntervals(status) == {status[k].interval : k \in 1..Len(status)} \ {0}

DividesAll(d, S) == \A v \in S : v % d = 0

\* C1: once sched_start has computed it, the sleep time is the greatest
\* common divisor of the nonzero block intervals (it divides each of them and
\* no larger number does), or 5 when there is no nonzero interval; it keeps
\* that value in every later state of the loop.
C1_SleepIsGcd ==
    pc # "start" =>
        LET S == NonzeroIntervals(blocks)
        IN  IF S = {}
            THEN sleeptime = DefaultSleep
            ELSE /\ sleeptime > 0
                 /\ DividesAll(sleeptime, S)
                 /\ \A d \in 1..MaxInterval : DividesAll(d, S) => d <= sleeptime

\* the loop sleeps with the time 2 computed for the intervals 4, 6, 0
C1_Witness ==
    /\ pc = "sleep"
    /\ now > StartTime
    /\ Len(blocks) = 3
    /\ <<blocks[1].interval, blocks[2].interval, blocks[3].interval>> = <<4, 6, 0>>
    /\ sleeptime = 2

\* C2: no delivery of SIGUSR1/SIGUSR2 is lost: as long as a block whose signal
\* was delivered has not been dispatched since, the wake-reason still records
\* that signal (it was neither overwritten nor reset).
C2_NoDeliveryLost ==
    \A k \in owed : caughtsig = blocks[k].signal

\* C3: all the refresh decisions of one pass read the same wake-reason value.
C3_SingleSnapshot ==
    Cardinality(seen) <= 1

\* C4: no cycle begins its refresh decisions while a delivered SIGIO has not
\* been answered by handle_click.
C4_ClickHandledBeforeNextCycle ==
    io # "missed"

Overdue(block, t) == t - (block.last_update + block.interval)

\* no signal pending and no click attached
Quiet(block) == caughtsig = 0 /\ block.click = EmptyClick

\* C6 (as claimed): for a block with nonzero interval, no signal pending and
\* no click attached, need_update returns true iff
\* now - (last_update + interval) >= 0.
C6_OutdatedIff ==
    (pc = "return" /\ updated[1].interval # 0 /\ Quiet(updated[1]))
        => (ret <=> Overdue(updated[1], now) >= 0)

\* C6 (amended): the same for a block that has run before (last_update # 0)
\* and a distance between now and last_update + interval below 2^(w-1); a
\* block with last_update = 0 makes need_update return true whatever now is.
C6_OutdatedIffAfterFirstRun ==
    (pc = "return" /\ updated[1].interval # 0 /\ Quiet(updated[1]))
        => /\ (updated[1].last_update # 0
                /\ Overdue(updated[1], now) < Word \div 2
                /\ Overdue(updated[1], now) > -(Word \div 2))
               => (ret <=> Overdue(updated[1], now) >= 0)
           /\ updated[1].last_update = 0 => ret

\* the instant of exact equality triggers
C6_Witness ==
    /\ pc = "return"
    /\ updated[1].interval # 0
    /\ Quiet(updated[1])
    /\ updated[1].last_update # 0
    /\ now = updated[1].last_update + updated[1].interval
    /\ ret

\* C7: need_update returns true for every block whose last_update is 0.
C7_FirstTimeAlways ==
    (pc = "return" /\ updated[1].last_update = 0) => ret

\* last_update = 0 alone makes need_update return true
C7_Witness ==
    /\ pc = "return"
    /\ updated[1].last_update = 0
    /\ updated[1].interval = 0
    /\ caughtsig = 0
    /\ updated[1].click = EmptyClick
    /\ ret

\* the notification names block k and names no block before it
FirstMatch(ub, n, k) ==
    /\ n.name # "" \/ n.instance # ""
    /\ ub[k].name = n.name /\ ub[k].instance = n.instance
    /\ \A j \in 1..(k - 1) : ~(ub[j].name = n.name /\ ub[j].instance = n.instance)

\* the click payload a notification carries, cut to the fields' capacities
Carried(n) ==
    [button |-> SubSeq(n.button, 1, MINOF(Len(n.button), ButtonCap - 1)),
     x |-> SubSeq(n.x, 1, MINOF(Len(n.x), XCap - 1)),
     y |-> SubSeq(n.y, 1, MINOF(Len(n.y), YCap - 1))]

\* C8: handle_click writes the click of the notification into the first block
\* whose name and instance equal the notification's, provided one of the two
\* is non-empty, and leaves every other block, and every other field, as it is.
C8_ClickFrame ==
    [][(pc = "woken" /\ caughtsig = SIGIO /\ pc' = "pass") =>
          /\ Len(updated') = Len(updated)
          /\ \A k \in 1..Len(updated) :
                updated'[k] = IF FirstMatch(updated, stdin, k)
                              THEN [updated[k] EXCEPT !.click = Carried(stdin)]
                              ELSE updated[k]]_vars

\* handle_click has run: the first of two blocks of the same name and instance
\* holds the click, the second does not
C8_Witness ==
    /\ pc = "pass"
    /\ Len(updated) >= 2
    /\ updated[1].name = "vol" /\ updated[2].name = "vol"
    /\ updated[1].instance = updated[2].instance
    /\ updated[1].click.button = <<"3">>
    /\ updated[2].click = EmptyClick

\* C9: a block whose command is empty is never handed to block_update.
C9_StaticNeverDispatched ==
    \A k \in dispatched : blocks[k].command # ""

\* a pass has gone by a static block that has never run, whose interval has
\* elapsed, whose signal is the wake-reason and which holds a click
C9_Witness ==
    /\ pc = "pass"
    /\ idx = 3
    /\ blocks[2].command = ""
    /\ updated[2].last_update = 0
    /\ now - StartTime >= blocks[2].interval
    /\ caughtsig = blocks[2].signal
    /\ updated[2].click.button # <<>>
    /\ 1 \in dispatched
    /\ 2 \notin dispatched

\* C10: when a cycle begins, every block the previous pass dispatched has an
\* empty click payload, unless handle_click gave it a click in between.
C10_DispatchClearsClick ==
    (pc = "pass" /\ idx = 1) =>
        \A k \in lastDisp : updated[k].click = EmptyClick

\* a cycle begins after a pass that dispatched a block with a click pending
\* and a block with none
C10_Witness ==
    /\ pc = "pass"
    /\ idx = 1
    /\ lastClicked # {}
    /\ lastDisp \ lastClicked # {}

\* C11: at the end of every complete pass of update_status_line every
\* block's click payload is empty, static and non-dispatched blocks included.
C11_ClickClearedEveryPass ==
    pc = "render" => \A k \in DOMAIN updated : updated[k].click = EmptyClick

\* the intervals of the status line, in order
Intervals == [k \in 1..num |-> blocks[k].interval]

\* a pass has just ended in a run that has received no signal
QuietCycle == pc = "render" /\ nsig = 0

\* C12 (as stated): intervals 4, 6, 0, no signal or click: the planned sleep
\* is 2; the cycle at t=0 dispatches all three blocks, the one at t=2 none,
\* the one at t=4 block 1, the one at t=6 blocks 1 and 2.
C12_Schedule ==
    (QuietCycle /\ Intervals = <<4, 6, 0>>) =>
        /\ sleeptime = 2
        /\ now = StartTime => lastDisp = {1, 2, 3}
        /\ now = StartTime + 2 => lastDisp = {}
        /\ now = StartTime + 4 => lastDisp = {1}
        /\ now = StartTime + 6 => lastDisp = {1, 2}

\* C12 (amended): as above, except that the cycle at t=6 dispatches block 2
\* alone (block 1, refreshed at t=4, is next due at t=8); there is a cycle
\* at every even t and at no other time.
C12_ScheduleFromLastRefresh ==
    (QuietCycle /\ Intervals = <<4, 6, 0>>) =>
        /\ sleeptime = 2
        /\ (now - StartTime) % 2 = 0
        /\ now = StartTime => lastDisp = {1, 2, 3}
        /\ now = StartTime + 2 => lastDisp = {}
        /\ now = StartTime + 4 => lastDisp = {1}
        /\ now = StartTime + 6 => lastDisp = {2}

C12_Witness ==
    /\ QuietCycle
    /\ Intervals = <<4, 6, 0>>
    /\ now = StartTime + 6
    /\ lastDisp = {2}
    /\ updated[1].last_update = StartTime + 4

\* the setup steps in the order sched_init makes them
SetupOrder == <<"SIGUSR1", "SIGUSR2", "SIGIO", "F_SETOWN", "F_SETFL">>

\* C13: sched_init returns non-zero iff a step it made failed; a failed step
\* is the last one made; the steps are made in order, those on stdin only
\* when stdin is no terminal, and all of them when none fails.
C13_SetupFailsIffStepFails ==
    setup.at = "return" =>
        LET steps == setup.done
            n == Len(steps)
        IN  /\ \A i \in 1..n : steps[i] = SetupOrder[i]
            /\ setup.rc # 0 <=> \E i \in 1..n : steps[i] \in setup.fail
            /\ \A i \in 1..n : steps[i] \in setup.fail => i = n
            /\ setup.tty => n <= 2
            /\ setup.rc = 0 => n = IF setup.tty THEN 2 ELSE 5

C13_Witness ==
    /\ setup.at = "return"
    /\ setup.tty
    /\ setup.fail = {"SIGIO", "F_SETOWN", "F_SETFL"}
    /\ setup.rc = 0
    /\ setup.done = <<"SIGUSR1", "SIGUSR2">>

\* C14: when a pass of update_status_line ends, caughtsig is 0, and only a
\* delivery makes it nonzero again: one delivery is seen by one pass at most.
C14_DeliveryServesOnePass ==
    [][ /\ (pc = "pass" /\ pc' = "render") => caughtsig' = 0
        /\ (caughtsig = 0 /\ caughtsig' # 0) => nsig' = nsig + 1
        /\ (caughtsig # 0 /\ caughtsig' # caughtsig) =>
              \/ nsig' = nsig + 1
              \/ pc = "pass" /\ pc' = "render" ]_vars

C14_Witness ==
    /\ pc = "render"
    /\ caughtsig = 0
    /\ SIGUSR1 \in seen
    /\ \E k \in lastDisp : blocks[k].interval = 0 /\ k \notin owed
    /\ nsig = 1

\* C15: the block handed to block_update equals its config block in every
\* field, last_update included, except the click, which is the click the
\* runtime block held just before; the click is cleared when block_update
\* has returned and not before; neither step changes another block.
C15_PrimedWithConfigAndClick ==
    [][ /\ (pc = "dispatch" /\ pc' = "update") =>
              /\ updated'[idx] = [blocks[idx] EXCEPT !.click = updated[idx].click]
              /\ updated'[idx].last_update = blocks[idx].last_update
              /\ \A k \in 1..num : k # idx => updated'[k] = updated[k]
        /\ (pc = "update" /\ pc' = "update") => updated' = updated
        /\ (pc = "update" /\ pc' # "update") =>
              /\ updated'[idx].click = EmptyClick
              /\ \A k \in 1..num : k # idx => updated'[k] = updated[k] ]_vars

C15_Witness ==
    /\ pc = "update"
    /\ updated[idx].click.button # <<>>
    /\ idx \in dispatched
    /\ updated[idx].last_update = 0
    /\ \E k \in 1..num : k # idx /\ updated[k].last_update # 0

\* C16: when block_update returns without having written last_update, the
\* block's last_update is the value it had before the dispatch, and no other
\* block, nor the wake-reason, nor the sleep time has changed.
C16_FailureKeepsLastUpdate ==
    [][ (/\ pc = "update"
         /\ pc' = "pass"
         /\ updated'[idx].last_update = updated[idx].last_update) =>
            /\ updated'[idx].last_update = prior
            /\ \A k \in 1..num : k # idx => updated'[k] = updated[k]
            /\ caughtsig' = caughtsig
            /\ sleeptime' = sleeptime ]_vars

\* the time at which block k is next due (it has run and has an interval)
Due(k) == updated[k].last_update + blocks[k].interval

Timed(k) == blocks[k].interval # 0 /\ updated[k].last_update # 0

\* C17: the clock advancing only inside sleep() and every execution writing
\* last_update.  Without signals every block is dispatched in the first
\* cycle and then exactly when the clock reads last_update + interval: the
\* sleep time divides the interval and a pass leaves no block due.  With or
\* without signals a block is never more than sleeptime - 1 past its due
\* time.
C17_IntervalService ==
    /\ (QuietCycle /\ now = StartTime) => lastDisp = 1..num
    /\ (nsig = 0 /\ pc = "dispatch" /\ updated[idx].last_update # 0) =>
          /\ blocks[idx].interval # 0
          /\ now = Due(idx)
    /\ pc # "start" =>
          \A k \in 1..num : blocks[k].interval % sleeptime = 0
    /\ pc = "render" =>
          \A k \in 1..num : Timed(k) => now < Due(k)
    /\ \A k \in 1..num : Timed(k) => now - Due(k) < sleeptime

C17_Witness ==
    /\ nsig = 0
    /\ pc = "dispatch"
    /\ blocks[idx].interval = 3
    /\ sleeptime = 1
    /\ updated[idx].last_update = StartTime + 3
    /\ now = StartTime + 6

\* what a field of capacity cap holds after a span has been copied into it
Stored(span, cap) ==
    IF Len(span) < cap THEN span ELSE [i \in 1..(cap - 1) |-> span[i]]

\* C18: handle_click leaves in button, x and y of the block it writes the
\* span when the span is shorter than the field's capacity and its first
\* capacity - 1 bytes otherwise, so each field keeps its terminating NUL;
\* nothing else of that block and nothing of the other block is written.
C18_FieldsCutToCapacity ==
    [][(pc = "woken" /\ pc' = "pass") =>
          LET k == ClickTarget(updated, stdin)
              c == updated'[k].click
          IN  /\ k \in 1..num
              /\ Len(c.button) <= ButtonCap - 1
              /\ Len(c.x) <= XCap - 1
              /\ Len(c.y) <= YCap - 1
              /\ c.button = Stored(stdin.button, ButtonCap)
              /\ c.x = Stored(stdin.x, XCap)
              /\ c.y = Stored(stdin.y, YCap)
              /\ updated' = [updated EXCEPT ![k].click = c]]_vars

\* handle_click has stored a button and an x of capacity - 1 bytes and an
\* empty y
C18_Witness ==
    /\ pc = "pass"
    /\ blocks = ParseLine
    /\ Len(updated[2].click.button) = ButtonCap - 1
    /\ updated[2].click.x = Span(XCap - 1)
    /\ updated[2].click.y = <<>>

\* the times below 2 * 2^w that an unsigned long holding u may stand for
TrueTimes(u) == {u, u + Word}

\* C19: with timestamps kept modulo 2^w, outdated equals the comparison
\* now >= last_update + interval of the true times whenever these are less
\* than 2^(w-1) apart, also when last_update + interval or now has wrapped;
\* for a block that has run, with no signal and no click, it is the result
\* of need_update.
C19_OutdatedWrapSafe ==
    (pc = "return" /\ updated[1].interval # 0) =>
        \A tn \in TrueTimes(now), tl \in TrueTimes(updated[1].last_update) :
            LET due == tl + updated[1].interval
            IN  (tn - due < Word \div 2 /\ due - tn < Word \div 2) =>
                   /\ outdated(updated[1], now) <=> tn >= due
                   /\ (Quiet(updated[1]) /\ updated[1].last_update # 0) =>
                         (ret <=> tn >= due)

\* last_update + interval has wrapped and so has now: the block is due
C19_Witness ==
    /\ pc = "return"
    /\ Quiet(updated[1])
    /\ updated[1].interval = 2
    /\ updated[1].last_update = Word - 1
    /\ now = 1
    /\ ret

\* block k runs a command and holds a click that need_update has yet to see
\* or block_update has yet to return from: the wake-reason is not none and
\* the pass that follows handle_click has not gone past the block
ClickPending(k) ==
    (~is_static(blocks[k]) /\ updated[k].click.button # <<>>) =>
        /\ caughtsig # 0
        /\ pc \in {"pass", "sig", "dispatch", "update"}
        /\ idx <= k

\* C20: a click that handle_click attached to a block with a command stays
\* as it is, with the wake-reason non-none, until the next pass has handed
\* the block to block_update and block_update has returned, whatever signals
\* arrive in between.
C20_ClickNeverMissed ==
    [][ /\ \A k \in 1..num : ClickPending(k)'
        /\ \A k \in 1..num :
              updated'[k].click # updated[k].click =>
                  \/ pc = "woken" /\ pc' = "pass"
                  \/ pc = "update" /\ idx = k /\ pc' = "pass" ]_vars

\* block_update runs with the click although SIGUSR2 has replaced SIGIO; the
\* block has run before, is not due and SIGUSR2 is not its signal
C20_Witness ==
    /\ pc = "update"
    /\ updated[idx].click = [button |-> <<"1">>, x |-> <<"1", "0">>, y |-> <<"2", "0">>]
    /\ caughtsig = SIGUSR2
    /\ blocks[idx].signal = SIGUSR1
    /\ prior # 0
    /\ now < prior + blocks[idx].interval

====
